---- MODULE Spec2Model ----
(***************************************************************************)
(* Model of the collection-to-mod-list conversion pipeline of              *)
(* rimworld-modbridge: SteamCollectionToRimPy.convert_collection and the   *)
(* methods it calls (src/main.py), with the window that starts it; and, on *)
(* their own, the cache stores (mod_cache.json, ModDatabase), the mod-list *)
(* writers and readers (XmlProcessor), the manifest readers and            *)
(* SteamHandler.download_mod with its steamcmd child.                      *)
(*                                                                         *)
(* Text values (workshop ids, package ids, manifest field texts) are       *)
(* sequences of one-character strings, so that strip() and lower() are     *)
(* computed and not assumed.                                               *)
(*                                                                         *)
(* Environment assumptions: shutil.rmtree of the temporary directory and   *)
(* the rewrite of mod_cache.json succeed; get_mod_info never raises (it    *)
(* catches every exception) and only supplies a display name, which is     *)
(* not modelled.                                                           *)
(***************************************************************************)
EXTENDS Integers, Sequences, FiniteSets, TLC

\* ------------------------------------------------------------------------
\* Bounds
\* ------------------------------------------------------------------------
\* mod ids fetched over all the conversions of a behaviour
MaxMods == 3
\* conversions started in a behaviour
MaxRuns == 2
\* ModDatabase.add_mod calls in a behaviour (values of datetime.now())
MaxClock == 3
\* package ids in a list handed to a mod-list writer on its own
MaxList == 2
\* SteamHandler.download_mod calls in a behaviour
MaxCalls == 2
\* children of the root element of a manifest handed to a reader on its own
MaxFields == 2

\* ------------------------------------------------------------------------
\* Text helpers
\* ------------------------------------------------------------------------
Whitespace == {" "}

LowerChar(c) ==
    CASE c = "A" -> "a"
      [] c = "B" -> "b"
      [] c = "I" -> "i"
      [] c = "P" -> "p"
      [] OTHER -> c

Lower(s) == [k \in 1..Len(s) |-> LowerChar(s[k])]

RECURSIVE StripLeft(_)
StripLeft(s) ==
    IF s # <<>> /\ Head(s) \in Whitespace THEN StripLeft(Tail(s)) ELSE s

RECURSIVE StripRight(_)
StripRight(s) ==
    IF s # <<>> /\ s[Len(s)] \in Whitespace
    THEN StripRight(SubSeq(s, 1, Len(s) - 1))
    ELSE s

Strip(s) == StripRight(StripLeft(s))

\* ------------------------------------------------------------------------
\* Identifiers
\* ------------------------------------------------------------------------
CollectionId == <<"9">>
WorkshopIds == {<<"1">>, <<"2">>}
\* ids of the item links a collection page can hold
LinkIds == WorkshopIds \cup {CollectionId}

SteamPrefix == <<"s", "t", "e", "a", "m", ".">>
CoreId == <<"l", "u", "d", "e", "o", "n", ".", "r", "i", "m", "w", "o", "r", "l", "d">>
KnownExpansions ==
    << CoreId \o <<".", "r", "o", "y", "a", "l", "t", "y">>,
       CoreId \o <<".", "i", "d", "e", "o", "l", "o", "g", "y">>,
       CoreId \o <<".", "b", "i", "o", "t", "e", "c", "h">>,
       CoreId \o <<".", "a", "n", "o", "m", "a", "l", "y">> >>

\* f"steam.{mod_id}".lower()
FallbackId(mod_id) == Lower(SteamPrefix \o mod_id)

\* ------------------------------------------------------------------------
\* Manifests (About/About.xml) and artifact layouts
\* ------------------------------------------------------------------------
\* text of the <packageId> child of the root, when it has one
ManifestTexts == { <<" ", "A", "b", " ">>, <<" ">> }

\* About/About.xml of a downloaded item: no such file, a file that does not
\* parse, a document whose root has no packageId child with text, or one
\* that has
NoManifest == [kind |-> "missing", text |-> <<>>]

Manifests ==
    { NoManifest,
      [kind |-> "unparsable", text |-> <<>>],
      [kind |-> "nofield", text |-> <<>>] }
    \cup { [kind |-> "field", text |-> t] : t \in ManifestTexts }

\* where steamcmd leaves the item below force_install_dir
Layouts == {"content", "downloads"}

\* ------------------------------------------------------------------------
\* Sequences of bounded length
\* ------------------------------------------------------------------------
SeqUpTo(S, n) == UNION { [1..k -> S] : k \in 0..n }

Range(f) == { f[k] : k \in DOMAIN f }

RECURSIVE SelectMods(_)
\* children with filetype == 0, in the order returned
SelectMods(children) ==
    IF children = <<>> THEN <<>>
    ELSE IF Head(children).filetype = 0
         THEN <<Head(children).publishedfileid>> \o SelectMods(Tail(children))
         ELSE SelectMods(Tail(children))

RECURSIVE ScanLinks(_, _)
\* page scan: keep the first occurrence of each id not yet in seen_ids
ScanLinks(links, seen_ids) ==
    IF links = <<>> THEN <<>>
    ELSE IF Head(links) \notin seen_ids
         THEN <<Head(links)>> \o ScanLinks(Tail(links), seen_ids \cup {Head(links)})
         ELSE ScanLinks(Tail(links), seen_ids)

\* ------------------------------------------------------------------------
\* State
\* ------------------------------------------------------------------------
VARIABLES
    phase,          \* position of the worker inside convert_collection
    runs,           \* conversions started so far
    cache_file,     \* mod_cache.json on disk
    mod_cache,      \* SteamCollectionToRimPy.mod_cache (dict in memory)
    stats,          \* ConversionStats of the converter
    budget,         \* mod ids that can still be fetched in this behaviour
    mod_ids,        \* list returned by get_collection_mods
    mods,           \* list of mod_info built by the loop
    process,        \* steamcmd child process: "none" or "running"
    download,       \* how the download of the current mod ended, until the loop uses it
    about,          \* manifest inside the item directory steamcmd just left
    launches,       \* workshop ids steamcmd was launched for in this run
    cache_upserts,  \* workshop ids passed to cache_package_id in this run
    temp_exists,    \* temp_workshop_path exists on disk
    artifacts,      \* item directories below temp_workshop_path: <<id, layout>>
    landed,         \* item directories steamcmd created in this run
    workshop,       \* item directories that were on disk before (Steam's own folder)
    output_file,    \* the mod-list file on disk
    write_status,   \* create_rimpy_xml in this run: "none", "ok", "failed"
    outcome,        \* how convert_collection ended: "none", "success", "failure"
    log,            \* per-mod decisions passed to log_callback in this run
    stop_requested, \* the caller's cancellation signal
    stop_at         \* number of mods resolved when the signal was raised (-1: not raised)

\* the cache stores on their own (mod_cache.json of SteamCollectionToRimPy and
\* the SQLite file of ModDatabase)
VARIABLES
    cache_opened,   \* a SteamCollectionToRimPy object holds mod_cache: "no", "yes"
    db_file,        \* the SQLite file of ModDatabase on disk
    db_opened,      \* ModDatabase(db_path): "no", "yes", or "raised"
    clock,          \* datetime.now() as a counter
    recent          \* package id of the most recent upsert per workshop id, per store

store_vars == << cache_opened, db_file, db_opened, clock, recent >>

\* the window of ModernConverterGUI and the worker thread it starts
VARIABLES
    convert_btn,    \* state of the start button: "normal" or "disabled"
    reported,       \* outcomes conversion_complete has shown for the current run
    rejected,       \* a click on the disabled start button was dropped in this run
    workers,        \* live run_conversion threads
    after_queue     \* conversion_complete calls queued with root.after(0, ...)

\* the mod-list writers and the reader of package ids on their own
VARIABLES
    list_input,     \* the ordered package ids handed to the writer
    list_writer,    \* the writer that was called, or "none"
    list_file,      \* the destination file on disk
    list_result,    \* "none", "ok" or "failed"
    list_read       \* what the reader returned, in a sequence; empty before the read

writer_vars == << list_input, list_writer, list_file, list_result, list_read >>

\* SteamHandler and the steamcmd child of its download_mod
VARIABLES
    dl_pc,           \* position in download_mod: "idle", "poll", "grace", "returned"
    dl_calls,        \* download_mod calls so far
    dl_id,           \* workshop_id of the call
    has_stop_flag,   \* set_stop_flag was given a callable
    stop_value,      \* what that callable returns
    current_process, \* SteamHandler._current_process: "None" or "Popen"
    child,           \* the steamcmd child: "none", "running", "exited", "killed"
    child_code,      \* exit code of the child once it has exited, else -1
    disk,            \* directories below download_dir: <<id, layout, "empty" or "files">>
    dl_seen,         \* what the call met: an exit code, an exception, a stop
    dl_result        \* the DownloadResult returned, NoResult before

\* the manifest readers on their own
VARIABLES
    rd_doc,          \* the About.xml of the mod directory handed to the readers
    rd_result        \* what each reader returned, NotRead before

reader_vars == << rd_doc, rd_result >>

handler_vars == << dl_pc, dl_calls, dl_id, has_stop_flag, stop_value, current_process,
                   child, child_code, disk, dl_seen, dl_result >>

button_vars == << convert_btn, reported, rejected >>
worker_vars == << workers, after_queue >>

\* the variables no step of a conversion touches
idle_vars == << store_vars, writer_vars, handler_vars, reader_vars >>

\* the variables the loop of a conversion does not touch
aux_vars == << idle_vars, button_vars, worker_vars >>

\* the variables of a conversion other than the cache and Steam's own folder
run_vars == << phase, runs, budget, stats, mod_ids, mods, process, download, about,
               launches, cache_upserts, temp_exists, artifacts, landed, output_file,
               write_status, outcome, log, stop_requested, stop_at >>

\* everything but the cache stores
outside_store == << workshop, run_vars, button_vars, worker_vars, writer_vars,
                    handler_vars, reader_vars >>

\* everything but the writers on their own
outside_writer == << cache_file, mod_cache, workshop, run_vars, button_vars, worker_vars,
                     store_vars, handler_vars, reader_vars >>

\* everything but SteamHandler
outside_handler == << cache_file, mod_cache, workshop, run_vars, button_vars, worker_vars,
                      store_vars, writer_vars, reader_vars >>

\* everything but the manifest readers
outside_reader == << cache_file, mod_cache, workshop, run_vars, button_vars, worker_vars,
                     store_vars, writer_vars, handler_vars >>

vars == << phase, runs, budget, cache_file, mod_cache, stats, mod_ids, mods,
           process, download, about, launches, cache_upserts, temp_exists, artifacts, landed,
           workshop, output_file, write_status, outcome, log, stop_requested,
           stop_at, aux_vars >>

EmptyDict == [x \in {} |-> <<>>]

\* ConversionStats.__init__ / ConversionStats.reset
ConversionStats ==
    [total_mods |-> 0, successful |-> 0, failed |-> 0, cached |-> 0, current |-> 0]

\* ------------------------------------------------------------------------
\* Cache
\* ------------------------------------------------------------------------
JsonFile(d) == [kind |-> "json", data |-> d]

\* mod_cache.json on disk: "absent"; "json" (an object, held in data); "empty"
\* (no content but whitespace); "corrupt" (content json.loads rejects, such as
\* a partly written document); "nondict" (valid JSON that is not an object)
CacheFile(kind) == [kind |-> kind, data |-> EmptyDict]

\* the dict load_cache returns (for "nondict" the value is not a dict: see
\* load_cache_type)
load_cache(file) ==
    IF file.kind = "json" THEN file.data ELSE EmptyDict

\* whether what load_cache returns is a dict
load_cache_type(file) ==
    IF file.kind = "nondict" THEN "other" ELSE "dict"

\* the file load_cache leaves behind: a missing file is created as {}, a file
\* json.loads rejects is recreated as {}, any other file is only read
load_cache_file(file) ==
    IF file.kind \in {"absent", "corrupt"} THEN JsonFile(EmptyDict) ELSE file

\* dict.get: a sequence holding the value, or the empty sequence for None
get_package_id_cached(cache, mod_id) ==
    IF mod_id \in DOMAIN cache THEN <<cache[mod_id]>> ELSE <<>>

\* Python truth value of the result of get_package_id_cached
Truthy(opt) == opt # <<>> /\ opt[1] # <<>>

\* variant: the dict is replaced by one holding only the new entry
cache_package_id_fresh(cache, mod_id, package_id) ==
    [x \in {mod_id} |-> package_id]

\* self.mod_cache[mod_id] = package_id
cache_package_id(cache, mod_id, package_id) ==
    [x \in DOMAIN cache \cup {mod_id} |-> IF x = mod_id THEN package_id ELSE cache[x]]

\* json.dump of the whole dict over the file
save_cache(cache) == JsonFile(cache)

\* ------------------------------------------------------------------------
\* Manifest reader and mod-list writer
\* ------------------------------------------------------------------------
\* variant: the text of the field is used whenever the manifest parses
extract_package_id_any_text(mod_id, dirs, manifest) ==
    IF <<mod_id, "content">> \notin dirs \/ manifest.kind = "missing"
    THEN FallbackId(mod_id)
    ELSE IF manifest.kind # "unparsable"
         THEN Lower(Strip(manifest.text))
         ELSE FallbackId(mod_id)

\* only <temp>/steamapps/workshop/content/294100/<id>/About/About.xml is read:
\* dirs are the item directories on disk, manifest what the item of mod_id holds
extract_package_id(mod_id, dirs, manifest) ==
    IF <<mod_id, "content">> \notin dirs \/ manifest.kind = "missing"
    THEN FallbackId(mod_id)
    ELSE IF manifest.kind = "field" /\ manifest.text # <<>>
         THEN Lower(Strip(manifest.text))
         ELSE FallbackId(mod_id)

\* tag of the package id element as RimWorld writes it, and the tags a
\* manifest can hold
PackageIdTag == <<"p", "a", "c", "k", "a", "g", "e", "I", "d">>
ManifestTags ==
    { PackageIdTag,
      <<"P", "a", "c", "k", "a", "g", "e", "I", "d">>,
      <<"p", "a", "c", "k", "a", "g", "e", "i", "d">>,
      <<"n", "a", "m", "e">> }

\* text of an element: the empty sequence is None (an element without text)
ElementTexts == ManifestTexts \cup { <<>> }

\* About.xml as an element tree: the children of the root in document order
AboutFields == [tag : ManifestTags, text : ElementTexts]

AboutDocument(kind, fields) == [kind |-> kind, fields |-> fields]

AboutDocuments ==
    { AboutDocument("missing", <<>>), AboutDocument("unparsable", <<>>) }
    \cup { AboutDocument("xml", fields) : fields \in SeqUpTo(AboutFields, MaxFields) }

RECURSIVE FindTag(_, _, _)
\* root.find(tag): index of the first child with exactly this tag, 0 for None
FindTag(fields, tag, k) ==
    IF k > Len(fields) THEN 0
    ELSE IF fields[k].tag = tag THEN k
    ELSE FindTag(fields, tag, k + 1)

\* what SteamCollectionToRimPy.extract_package_id sees of a manifest:
\* about_xml.exists(), ET.parse, root.find('packageId') and its text
AboutSeenByFind(doc) ==
    IF doc.kind # "xml" THEN [kind |-> doc.kind, text |-> <<>>]
    ELSE IF FindTag(doc.fields, PackageIdTag, 1) = 0 THEN [kind |-> "nofield", text |-> <<>>]
    ELSE [kind |-> "field", text |-> doc.fields[FindTag(doc.fields, PackageIdTag, 1)].text]

RECURSIVE LastPackageIdText(_, _)
\* for elem in root: if elem.tag.lower() == "packageid": package_id = elem.text
\* (package_id starts as None)
LastPackageIdText(fields, package_id) ==
    IF fields = <<>> THEN package_id
    ELSE LastPackageIdText(Tail(fields),
                           IF Lower(Head(fields).tag) = Lower(PackageIdTag)
                           THEN Head(fields).text
                           ELSE package_id)

\* what a reader returns: absent (None) or a package id
Absent == [kind |-> "absent", package_id |-> <<>>]
Found(package_id) == [kind |-> "found", package_id |-> package_id]

\* XmlProcessor.extract_package_id: None when find_about_xml finds no file,
\* when the document does not parse (every exception is caught) and when
\* `not package_id`; else ModInfo with package_id.strip().lower()
XmlProcessor_extract_package_id(doc) ==
    IF doc.kind # "xml" THEN Absent
    ELSE IF LastPackageIdText(doc.fields, <<>>) = <<>> THEN Absent
    ELSE Found(Lower(Strip(LastPackageIdText(doc.fields, <<>>))))

\* SteamCollectionToRimPy.extract_package_id as a reader: its way of saying
\* absent is the fallback id steam.<id>
main_extract_package_id(mod_id, doc) ==
    IF extract_package_id(mod_id, {<<mod_id, "content">>}, AboutSeenByFind(doc))
           = FallbackId(mod_id)
    THEN Absent
    ELSE Found(extract_package_id(mod_id, {<<mod_id, "content">>}, AboutSeenByFind(doc)))

NotRead == [xml_processor |-> Absent, main |-> Absent, done |-> FALSE]

\* mod_info of the conversion loop: the fields the writer uses
ModInfo(mod_id, package_id) == [id |-> mod_id, packageId |-> package_id]

PackageIds(ms) == [k \in 1..Len(ms) |-> ms[k].packageId]

\* variant: package ids already listed are not listed again
create_rimpy_xml_dedup(ms) ==
    [kind |-> "xml", version |-> "1.5",
     activeMods |-> <<CoreId>> \o ScanLinks(PackageIds(ms), {}),
     knownExpansions |-> KnownExpansions]

\* the document create_rimpy_xml serialises
create_rimpy_xml(ms) ==
    [kind |-> "xml", version |-> "1.5",
     activeMods |-> <<CoreId>> \o PackageIds(ms),
     knownExpansions |-> KnownExpansions]

NoFile == [kind |-> "absent", version |-> "", activeMods |-> <<>>, knownExpansions |-> <<>>]

\* a mod-list file as an element tree: the tag of the root, the text of its
\* version element, and the texts of the <li> children of each list element.
\* kind is "absent", "xml" (a complete document) or "partial" (a document cut
\* short, which no parser accepts)
ListDocument(root, version, lists) ==
    [kind |-> "xml", root |-> root, version |-> version, lists |-> lists]

NoLists == [x \in {} |-> <<>>]
AbsentList == [kind |-> "absent", root |-> "", version |-> "", lists |-> NoLists]
PartialList == [kind |-> "partial", root |-> "", version |-> "", lists |-> NoLists]

\* the document of create_rimpy_xml as an element tree
ModsConfigTree(d) ==
    ListDocument("ModsConfigData", d.version,
                 ("activeMods" :> d.activeMods) @@ ("knownExpansions" :> d.knownExpansions))

\* XmlProcessor.generate_rimpy_xml: <ModList> with <Name>, <Version> and one
\* <li> per mod_info below <Mods>
generate_rimpy_xml(package_ids) ==
    ListDocument("ModList", "1.0", "Mods" :> package_ids)

\* XmlProcessor.generate_mods_config_data_xml: <activeMods> holds one <li> per
\* mod_info, <knownExpansions> five fixed entries
generate_mods_config_data_xml(package_ids) ==
    ListDocument("ModsConfigData", "1.6.4633",
                 ("activeMods" :> package_ids)
                     @@ ("knownExpansions" :> (<<CoreId>> \o KnownExpansions)))

\* the writers of a mod-list file
ListWriters == {"create_rimpy_xml", "generate_rimpy_xml", "generate_mods_config_data_xml"}

\* the document a writer produces for a list of package ids
WrittenDocument(w, package_ids) ==
    CASE w = "create_rimpy_xml" ->
           ModsConfigTree(create_rimpy_xml(
               [k \in 1..Len(package_ids) |-> ModInfo(<<"1">>, package_ids[k])]))
      [] w = "generate_rimpy_xml" -> generate_rimpy_xml(package_ids)
      [] w = "generate_mods_config_data_xml" -> generate_mods_config_data_xml(package_ids)

RECURSIVE ReadItems(_)
\* for li in mods_elem.findall("li"): if li.text: append(li.text.strip().lower())
\* (an <li> written with empty text is read back with text None)
ReadItems(items) ==
    IF items = <<>> THEN <<>>
    ELSE IF Head(items) # <<>>
         THEN <<Lower(Strip(Head(items)))>> \o ReadItems(Tail(items))
         ELSE ReadItems(Tail(items))

\* XmlProcessor.parse_existing_rimpy_xml: a file that is missing or does not
\* parse gives [], and so does a root without a <Mods> child
parse_existing_rimpy_xml(file) ==
    IF file.kind # "xml" THEN <<>>
    ELSE IF "Mods" \notin DOMAIN file.lists THEN <<>>
    ELSE ReadItems(file.lists["Mods"])

\* ------------------------------------------------------------------------
\* Init
\* ------------------------------------------------------------------------
\* no conversion has started
RunIdle ==
    /\ phase = "idle"
    /\ runs = 0
    /\ budget = MaxMods
    /\ stats = ConversionStats
    /\ mod_ids = <<>>
    /\ mods = <<>>
    /\ process = "none"
    /\ download = "none"
    /\ about = NoManifest
    /\ launches = <<>>
    /\ cache_upserts = <<>>
    /\ temp_exists = FALSE
    /\ artifacts = {}
    /\ landed = {}
    /\ output_file = NoFile
    /\ write_status = "none"
    /\ outcome = "none"
    /\ log = <<>>
    /\ stop_requested = FALSE
    /\ stop_at = -1

\* the window after construction
GuiIdle ==
    /\ convert_btn = "normal"
    /\ reported = <<>>
    /\ rejected = FALSE
    /\ workers = 0
    /\ after_queue = <<>>

\* ------------------------------------------------------------------------
\* SteamHandler.download_mod
\* ------------------------------------------------------------------------
\* the places below download_dir where an item is looked for, in the order of
\* _find_mod_in_alternate_locations: steamapps/workshop/content/294100/<id>,
\* steamapps/workshop/downloads/294100/<id>, workshop/content/294100/<id>,
\* workshop/downloads/294100/<id>, <id>
AltLayouts == << "content", "downloads", "workshop_content", "workshop_downloads", "id_only" >>

\* os.path.exists(path) and os.listdir(path)
HasFiles(d, id, layout) == <<id, layout, "files">> \in d

\* SteamHandler.get_mod_path
get_mod_path(id) == <<id, "content">>

RECURSIVE FoundIn(_, _, _)
FoundIn(d, id, layouts) ==
    IF layouts = <<>> THEN <<>>
    ELSE IF HasFiles(d, id, Head(layouts))
         THEN << <<id, Head(layouts)>> >> \o FoundIn(d, id, Tail(layouts))
         ELSE FoundIn(d, id, Tail(layouts))

\* SteamHandler._find_mod_in_alternate_locations
find_mod_in_alternate_locations(d, id) == FoundIn(d, id, AltLayouts)

ExitCodes == {0, 1, 5}
LaunchExceptions == {"FileNotFoundError", "PermissionError"}

NoError == [kind |-> "none", code |-> -1, text |-> ""]
ExitError(code) == [kind |-> "exit_code", code |-> code, text |-> ""]
ExceptionError(text) == [kind |-> "exception", code |-> -1, text |-> text]
NoFolderError == [kind |-> "no_folder", code |-> -1, text |-> ""]
StoppedError == [kind |-> "stopped", code |-> -1, text |-> ""]

\* variant: the path found is not handed to the caller
DownloadResult_without_path(id, status, mod_path, error_message) ==
    [workshop_id |-> id, status |-> status, mod_path |-> <<>>,
     error_message |-> error_message]

\* DownloadResult(workshop_id, status, mod_path, error_message); mod_path and
\* error_message are None (the empty sequence, NoError) when not given
DownloadResult(id, status, mod_path, error_message) ==
    [workshop_id |-> id, status |-> status, mod_path |-> mod_path,
     error_message |-> error_message]

NoResult == DownloadResult(<<>>, "none", <<>>, NoError)

\* variant: exit code 0 is success whatever is on disk, as in
\* download_mod_with_steamcmd
download_mod_on_exit_code_only(d, id, retcode) ==
    IF retcode = 0
    THEN DownloadResult(id, "SUCCESS", <<get_mod_path(id)>>, NoError)
    ELSE DownloadResult(id, "FAILED", <<>>, ExitError(retcode))

\* download_mod once poll() gave an exit code
download_mod_on_exit(d, id, retcode) ==
    IF retcode = 0
    THEN IF HasFiles(d, id, "content")
         THEN DownloadResult(id, "SUCCESS", <<get_mod_path(id)>>, NoError)
         ELSE IF find_mod_in_alternate_locations(d, id) # <<>>
              THEN DownloadResult(id, "SUCCESS",
                                  <<find_mod_in_alternate_locations(d, id)[1]>>, NoError)
              ELSE DownloadResult(id, "FAILED", <<>>, NoFolderError)
    ELSE DownloadResult(id, "FAILED", <<>>, ExitError(retcode))

\* what the child can leave below download_dir: nothing new, or one more
\* directory for the item, empty or with files
SteamcmdWrites(d, id) ==
    {d} \cup { d \cup {<<id, layout, st>>} :
                 layout \in { l \in Range(AltLayouts) :
                                 \A st2 \in {"empty", "files"} : <<id, l, st2>> \notin d },
                 st \in {"empty", "files"} }

NothingSeen == [kind |-> "none", code |-> -1, text |-> ""]

\* SteamHandler.__init__, no download_mod call yet
HandlerIdle ==
    /\ dl_pc = "idle"
    /\ dl_calls = 0
    /\ dl_id = <<>>
    /\ has_stop_flag = FALSE
    /\ stop_value = FALSE
    /\ current_process = "None"
    /\ child = "none"
    /\ child_code = -1
    /\ disk = {}
    /\ dl_seen = NothingSeen
    /\ dl_result = NoResult

\* no manifest was handed to a reader on its own
ReaderIdle ==
    /\ rd_doc = AboutDocument("missing", <<>>)
    /\ rd_result = NotRead

\* no list was handed to a writer on its own
WriterIdle ==
    /\ list_input = <<>>
    /\ list_writer = "none"
    /\ list_file = AbsentList
    /\ list_result = "none"
    /\ list_read = <<>>

\* the stores on their own are not in use
StoreIdle ==
    /\ cache_opened = "no"
    /\ db_file = [kind |-> "absent", rows |-> {}]
    /\ db_opened = "no"
    /\ clock = 0
    /\ recent = [cache |-> EmptyDict, db |-> EmptyDict]

Init ==
    /\ RunIdle
    /\ GuiIdle
    /\ WriterIdle
    /\ HandlerIdle
    /\ ReaderIdle
    /\ cache_file = CacheFile("absent")
    /\ mod_cache = EmptyDict
    /\ workshop \in {{}, WorkshopIds}
    /\ StoreIdle

\* ------------------------------------------------------------------------
\* Actions: the worker running convert_collection
\* ------------------------------------------------------------------------
\* variant: the call of conversion_complete is queued in the handler and once
\* more on the way out
WorkerEnds_twice(result) ==
    /\ workers' = workers - 1
    /\ after_queue' = after_queue \o <<result, result>>

\* run_conversion ends: the call of conversion_complete is queued for the main
\* thread, with success=True when convert_collection returned and False when
\* it raised
WorkerEnds(result) ==
    /\ workers' = workers - 1
    /\ after_queue' = Append(after_queue, result)

\* convert_collection raised before its try block: no temporary directory yet
RaiseBeforeTry ==
    /\ phase' = "done"
    /\ outcome' = "failure"
    /\ WorkerEnds("failure")

\* variant: the start button is left enabled while the worker runs
StartConversion_button_stays_normal ==
    /\ convert_btn = "normal"
    /\ runs < MaxRuns
    /\ runs' = runs + 1
    /\ convert_btn' = "normal"
    /\ reported' = <<>>
    /\ rejected' = FALSE
    /\ workers' = workers + 1
    /\ mod_cache' = load_cache(cache_file)
    /\ cache_file' = load_cache_file(cache_file)
    /\ stats' = ConversionStats
    /\ mod_ids' = <<>>
    /\ mods' = <<>>
    /\ launches' = <<>>
    /\ cache_upserts' = <<>>
    /\ landed' = {}
    /\ write_status' = "none"
    /\ outcome' = "none"
    /\ log' = <<>>
    /\ stop_requested' = FALSE
    /\ stop_at' = -1
    /\ phase' = "url"
    /\ UNCHANGED << budget, process, download, about, temp_exists, artifacts, workshop,
                    output_file >>
    /\ UNCHANGED << idle_vars, after_queue >>

\* run_conversion: SteamCollectionToRimPy(...) loads the cache, then
\* convert_collection starts with stats.reset()
\* (the early returns of start_conversion, for an empty URL or output path,
\* change nothing); the click reaches start_conversion only while the button
\* is enabled
StartConversion ==
    /\ convert_btn = "normal"
    /\ runs < MaxRuns
    /\ runs' = runs + 1
    /\ convert_btn' = "disabled"
    /\ reported' = <<>>
    /\ rejected' = FALSE
    /\ workers' = workers + 1
    /\ mod_cache' = load_cache(cache_file)
    /\ cache_file' = load_cache_file(cache_file)
    /\ stats' = ConversionStats
    /\ mod_ids' = <<>>
    /\ mods' = <<>>
    /\ launches' = <<>>
    /\ cache_upserts' = <<>>
    /\ landed' = {}
    /\ write_status' = "none"
    /\ outcome' = "none"
    /\ log' = <<>>
    /\ stop_requested' = FALSE
    /\ stop_at' = -1
    /\ phase' = "url"
    /\ UNCHANGED << budget, process, download, about, temp_exists, artifacts, workshop,
                    output_file >>
    /\ UNCHANGED << idle_vars, after_queue >>

\* get_collection_mods: re.search(r'id=(\d+)', collection_url)
ExtractCollectionId ==
    /\ phase = "url"
    /\ \E has_id \in BOOLEAN :
          IF has_id
          THEN /\ phase' = "api"
               /\ UNCHANGED << outcome, worker_vars >>
          ELSE RaiseBeforeTry
    /\ UNCHANGED << runs, budget, cache_file, mod_cache, stats, mod_ids, mods,
                    process, download, about, launches, cache_upserts, temp_exists, artifacts, landed,
                    workshop, output_file, write_status, log, stop_requested, stop_at >>
    /\ UNCHANGED << idle_vars, button_vars >>

\* get_collection_mods returned ids: total_mods is set and the temporary
\* directory is created (tempfile.mkdtemp gives a new, empty directory)
FetchReturns(ids) ==
    /\ mod_ids' = ids
    /\ budget' = budget - Len(ids)
    /\ stats' = [stats EXCEPT !.total_mods = Len(ids)]
    /\ temp_exists' = TRUE
    /\ artifacts' = {}
    /\ phase' = "loop"
    /\ UNCHANGED << outcome, worker_vars >>

ApiChildren == [publishedfileid : WorkshopIds, filetype : {0, 2}]

\* get_collection_mods, structured call. Any exception (request error, HTTP
\* error, result code other than 1) and a response without 'children' lead
\* to the page scan; a response with 'children' is returned as it is.
SteamApi ==
    /\ phase = "api"
    /\ \/ \E children \in SeqUpTo(ApiChildren, budget) :
             FetchReturns(SelectMods(children))
       \/ /\ phase' = "scrape"
          /\ UNCHANGED << budget, mod_ids, stats, temp_exists, artifacts, outcome,
                          worker_vars >>
    /\ UNCHANGED << runs, cache_file, mod_cache, mods, process, download, about, launches,
                    cache_upserts, landed, workshop, output_file, write_status,
                    log, stop_requested, stop_at >>
    /\ UNCHANGED << idle_vars, button_vars >>

\* get_collection_mods, page scan. A request error is re-raised; otherwise the
\* item links of the container found are scanned, and a page without a
\* container gives the empty list.
WebScrape ==
    /\ phase = "scrape"
    /\ \/ \E has_container \in BOOLEAN, links \in SeqUpTo(LinkIds, budget) :
             FetchReturns(IF has_container THEN ScanLinks(links, {CollectionId}) ELSE <<>>)
       \/ /\ RaiseBeforeTry
          /\ UNCHANGED << budget, mod_ids, stats, temp_exists, artifacts >>
    /\ UNCHANGED << runs, cache_file, mod_cache, mods, process, download, about, launches,
                    cache_upserts, landed, workshop, output_file, write_status,
                    log, stop_requested, stop_at >>
    /\ UNCHANGED << idle_vars, button_vars >>

\* the mod the loop is at
CurrentIndex == Len(mods) + 1
CurrentMod == mod_ids[CurrentIndex]

\* variant: a cache hit is counted as cached but not as successful
ProcessCached_not_successful ==
    /\ phase = "loop"
    /\ CurrentIndex <= Len(mod_ids)
    /\ Truthy(get_package_id_cached(mod_cache, CurrentMod))
    /\ mods' = Append(mods, ModInfo(CurrentMod, get_package_id_cached(mod_cache, CurrentMod)[1]))
    /\ log' = Append(log, "cached")
    /\ stats' = [stats EXCEPT !.current = CurrentIndex, !.cached = @ + 1]
    /\ UNCHANGED << phase, runs, budget, cache_file, mod_cache, mod_ids, process,
                    download, about, launches, cache_upserts, temp_exists, artifacts,
                    landed, workshop, output_file, write_status, outcome,
                    stop_requested, stop_at >>
    /\ UNCHANGED aux_vars

\* loop body, cache hit: `if cached_package_id:` ... continue
ProcessCached ==
    /\ phase = "loop"
    /\ CurrentIndex <= Len(mod_ids)
    /\ Truthy(get_package_id_cached(mod_cache, CurrentMod))
    /\ mods' = Append(mods, ModInfo(CurrentMod, get_package_id_cached(mod_cache, CurrentMod)[1]))
    /\ log' = Append(log, "cached")
    /\ stats' = [stats EXCEPT !.current = CurrentIndex,
                              !.cached = @ + 1,
                              !.successful = @ + 1]
    /\ UNCHANGED << phase, runs, budget, cache_file, mod_cache, mod_ids, process,
                    download, about, launches, cache_upserts, temp_exists, artifacts,
                    landed, workshop, output_file, write_status, outcome,
                    stop_requested, stop_at >>
    /\ UNCHANGED aux_vars

\* variant: the loop goes on as soon as steamcmd was started
LaunchDownload_without_wait ==
    /\ phase = "loop"
    /\ CurrentIndex <= Len(mod_ids)
    /\ ~Truthy(get_package_id_cached(mod_cache, CurrentMod))
    /\ stats' = [stats EXCEPT !.current = CurrentIndex]
    /\ launches' = Append(launches, CurrentMod)
    /\ process' = "running"
    /\ download' = "exit_nonzero"
    /\ phase' = "resolve"
    /\ UNCHANGED << runs, budget, cache_file, mod_cache, mod_ids, mods, about,
                    cache_upserts, temp_exists, artifacts, landed, workshop,
                    output_file, write_status, outcome, log, stop_requested, stop_at >>
    /\ UNCHANGED aux_vars

\* loop body, cache miss: download_mod_with_steamcmd starts steamcmd with
\* subprocess.Popen; an exception of Popen makes the download return False
LaunchDownload ==
    /\ phase = "loop"
    /\ CurrentIndex <= Len(mod_ids)
    /\ ~Truthy(get_package_id_cached(mod_cache, CurrentMod))
    /\ stats' = [stats EXCEPT !.current = CurrentIndex]
    /\ launches' = Append(launches, CurrentMod)
    /\ \/ /\ process' = "running"
          /\ phase' = "poll"
          /\ UNCHANGED download
       \/ /\ download' = "exception"
          /\ phase' = "resolve"
          /\ UNCHANGED process
    /\ UNCHANGED << runs, budget, cache_file, mod_cache, mod_ids, mods, about,
                    cache_upserts, temp_exists, artifacts, landed, workshop,
                    output_file, write_status, outcome, log, stop_requested, stop_at >>
    /\ UNCHANGED aux_vars

\* convert_collection calls download_mod_with_steamcmd without a stop_flag,
\* so the parameter keeps its default None
StopFlagPassed == FALSE

\* what steamcmd can have left below force_install_dir when it exits: nothing
\* new, or the item directory in one of the layouts
SteamcmdLeaves(dirs, mod_id) ==
    {dirs} \cup { dirs \cup {<<mod_id, layout>>} : layout \in Layouts }

\* download_mod_with_steamcmd, the decisive turn of the poll loop.
\* `if stop_flag and stop_flag():` terminates (then kills) the child and
\* returns False. Otherwise process.poll() gave an exit code: 0 makes the
\* download True whatever is on disk, anything else False. The turns where
\* poll() gives None only sleep and change nothing.
Poll ==
    /\ phase = "poll"
    /\ process' = "none"
    /\ phase' = "resolve"
    /\ IF StopFlagPassed /\ stop_requested
       THEN /\ download' = "stopped"
            /\ UNCHANGED << artifacts, landed, about >>
       ELSE \E retcode \in {0, 1}, dirs \in SteamcmdLeaves(artifacts, CurrentMod) :
            /\ download' = IF retcode = 0 THEN "exit_zero" ELSE "exit_nonzero"
            /\ artifacts' = dirs
            /\ landed' = landed \cup (dirs \ artifacts)
            /\ IF retcode = 0 /\ <<CurrentMod, "content">> \in dirs
               THEN about' \in Manifests
               ELSE about' = NoManifest
    /\ UNCHANGED << runs, budget, cache_file, mod_cache, stats, mod_ids, mods,
                    launches, cache_upserts, temp_exists, workshop, output_file,
                    write_status, outcome, log, stop_requested, stop_at >>
    /\ UNCHANGED aux_vars

\* download_mod_with_steamcmd returns True only for exit code 0
DownloadReturned(result) == result = "exit_zero"

\* loop body after the download: `if success:` extract_package_id,
\* cache_package_id (which saves the cache), successful += 1; `else:` the
\* fallback id, failed += 1; then mods.append(mod_info)
Resolve ==
    /\ phase = "resolve"
    /\ IF DownloadReturned(download)
       THEN LET package_id == extract_package_id(CurrentMod, artifacts, about) IN
            /\ mods' = Append(mods, ModInfo(CurrentMod, package_id))
            /\ log' = Append(log, "package")
            /\ mod_cache' = cache_package_id(mod_cache, CurrentMod, package_id)
            /\ cache_file' = save_cache(cache_package_id(mod_cache, CurrentMod, package_id))
            /\ cache_upserts' = Append(cache_upserts, CurrentMod)
            /\ stats' = [stats EXCEPT !.successful = @ + 1]
       ELSE /\ mods' = Append(mods, ModInfo(CurrentMod, FallbackId(CurrentMod)))
            /\ log' = Append(log, "fallback")
            /\ stats' = [stats EXCEPT !.failed = @ + 1]
            /\ UNCHANGED << mod_cache, cache_file, cache_upserts >>
    /\ download' = "none"
    /\ about' = NoManifest
    /\ phase' = "loop"
    /\ UNCHANGED << runs, budget, mod_ids, process, launches, temp_exists, artifacts,
                    landed, workshop, output_file, write_status, outcome,
                    stop_requested, stop_at >>
    /\ UNCHANGED aux_vars

\* after the loop: create_rimpy_xml(mods, output_file); tree.write can raise
\* (the file cannot be opened for writing)
WriteModList ==
    /\ phase = "loop"
    /\ CurrentIndex > Len(mod_ids)
    /\ \/ /\ output_file' = create_rimpy_xml(mods)
          /\ write_status' = "ok"
       \/ /\ output_file' = output_file
          /\ write_status' = "failed"
    /\ phase' = "cleanup"
    /\ UNCHANGED << runs, budget, cache_file, mod_cache, stats, mod_ids, mods,
                    process, download, about, launches, cache_upserts, temp_exists, artifacts, landed,
                    workshop, outcome, log, stop_requested, stop_at >>
    /\ UNCHANGED aux_vars

\* variant: only the item directories of the content layout are removed
CleanupArtifacts_content_only(dirs) == { d \in dirs : d[2] # "content" }

\* what shutil.rmtree(self.temp_workshop_path) leaves of the temporary directory
CleanupArtifacts(dirs) == {}

\* variant: the temporary directory is removed only after a successful write
Cleanup_on_success_only ==
    /\ phase = "cleanup"
    /\ artifacts' = IF write_status = "ok" THEN {} ELSE artifacts
    /\ temp_exists' = (write_status # "ok")
    /\ outcome' = IF write_status = "ok" THEN "success" ELSE "failure"
    /\ phase' = "done"
    /\ UNCHANGED << runs, budget, cache_file, mod_cache, stats, mod_ids, mods,
                    process, download, about, launches, cache_upserts, landed,
                    workshop, output_file, write_status, log, stop_requested, stop_at >>
    /\ WorkerEnds(IF write_status = "ok" THEN "success" ELSE "failure")
    /\ UNCHANGED << idle_vars, button_vars >>

\* the finally block: the temporary directory is removed whether the write
\* succeeded or raised; then convert_collection returns mods or re-raises
Cleanup ==
    /\ phase = "cleanup"
    /\ artifacts' = CleanupArtifacts(artifacts)
    /\ temp_exists' = FALSE
    /\ outcome' = IF write_status = "ok" THEN "success" ELSE "failure"
    /\ phase' = "done"
    /\ UNCHANGED << runs, budget, cache_file, mod_cache, stats, mod_ids, mods,
                    process, download, about, launches, cache_upserts, landed, workshop, output_file,
                    write_status, log, stop_requested, stop_at >>
    /\ WorkerEnds(IF write_status = "ok" THEN "success" ELSE "failure")
    /\ UNCHANGED << idle_vars, button_vars >>

\* conversion_complete: the outcome is shown and the start button is enabled again
ConversionComplete ==
    /\ after_queue # <<>>
    /\ after_queue' = Tail(after_queue)
    /\ convert_btn' = "normal"
    /\ reported' = Append(reported, Head(after_queue))
    /\ phase' = "idle"
    /\ UNCHANGED << runs, budget, cache_file, mod_cache, stats, mod_ids, mods,
                    process, download, about, launches, cache_upserts, temp_exists, artifacts, landed,
                    workshop, output_file, write_status, outcome, log, stop_requested,
                    stop_at >>
    /\ UNCHANGED << idle_vars, rejected, workers >>

\* ------------------------------------------------------------------------
\* Action: the caller raises the cancellation signal during a run
\* ------------------------------------------------------------------------
RequestStop ==
    /\ phase \in {"loop", "poll", "resolve"}
    /\ ~stop_requested
    /\ stop_requested' = TRUE
    /\ stop_at' = IF phase = "resolve" THEN Len(mods) + 1 ELSE Len(mods)
    /\ UNCHANGED << phase, runs, budget, cache_file, mod_cache, stats, mod_ids,
                    mods, process, download, about, launches, cache_upserts, temp_exists, artifacts,
                    landed, workshop, output_file, write_status, outcome, log >>
    /\ UNCHANGED aux_vars

Next ==
    \/ StartConversion
    \/ ExtractCollectionId
    \/ SteamApi
    \/ WebScrape
    \/ ProcessCached
    \/ LaunchDownload
    \/ Poll
    \/ Resolve
    \/ WriteModList
    \/ Cleanup
    \/ ConversionComplete

Spec == Init /\ [][Next]_vars

\* the same conversions with a caller that can raise the cancellation signal
NextWithStop ==
    \/ Next
    \/ RequestStop

SpecWithStop == Init /\ [][NextWithStop]_vars

\* ------------------------------------------------------------------------
\* Action: the user clicks the start button while it is disabled
\* ------------------------------------------------------------------------
\* the button was configured with state="disabled": the click does not call
\* start_conversion and is not kept
ClickWhileConverting ==
    /\ convert_btn = "disabled"
    /\ ~rejected
    /\ rejected' = TRUE
    /\ UNCHANGED << convert_btn, reported, worker_vars, idle_vars, cache_file, mod_cache,
                    workshop, run_vars >>

\* Steam's own folder plays no part in what the window does
GuiInit == Init /\ workshop = {}

\* the same conversions with a user who keeps clicking the start button
NextWithClicks ==
    \/ Next
    \/ ClickWhileConverting

SpecWithClicks == GuiInit /\ [][NextWithClicks]_vars

\* ------------------------------------------------------------------------
\* Scheduling: the worker thread keeps running (HTTP requests have timeouts,
\* steamcmd exits), and the Tk main loop runs the queued calls
\* ------------------------------------------------------------------------
WorkerStep ==
    \/ ExtractCollectionId
    \/ SteamApi
    \/ WebScrape
    \/ ProcessCached
    \/ LaunchDownload
    \/ Poll
    \/ Resolve
    \/ WriteModList
    \/ Cleanup

SpecFair ==
    GuiInit /\ [][Next]_vars /\ WF_vars(WorkerStep) /\ WF_vars(ConversionComplete)

\* ------------------------------------------------------------------------
\* The cache stores on their own: mod_cache.json (SteamCollectionToRimPy) and
\* the SQLite table `mods` (ModDatabase)
\* ------------------------------------------------------------------------
\* package ids the manifest reader can hand to a store
StorePackageIds ==
    { extract_package_id(id, {<<id, "content">>}, m) : id \in WorkshopIds, m \in Manifests }

\* collection_url of add_mod: None (the empty text) or a URL
CollectionUrls == { <<>>, <<"u">> }

ModRecord(workshop_id, package_id, processed_date, collection_url) ==
    [workshop_id |-> workshop_id, package_id |-> package_id,
     processed_date |-> processed_date, collection_url |-> collection_url]

\* rows of the table with this primary key
RowsOf(rows, workshop_id) == { r \in rows : r.workshop_id = workshop_id }

\* ModDatabase.get_package_id: SELECT package_id ... fetchone(); a sequence
\* holding the value, or the empty sequence for None
get_package_id(rows, workshop_id) ==
    IF RowsOf(rows, workshop_id) = {} THEN <<>>
    ELSE <<(CHOOSE r \in RowsOf(rows, workshop_id) : TRUE).package_id>>

\* variant: a plain INSERT into a table without primary key
add_mod_insert(rows, workshop_id, package_id, processed_date, collection_url) ==
    rows \cup {ModRecord(workshop_id, package_id, processed_date, collection_url)}

\* ModDatabase.add_mod: INSERT OR REPLACE on the primary key workshop_id
add_mod(rows, workshop_id, package_id, processed_date, collection_url) ==
    (rows \ RowsOf(rows, workshop_id))
        \cup {ModRecord(workshop_id, package_id, processed_date, collection_url)}

DbFile(rows) == [kind |-> "db", rows |-> rows]

\* ModDatabase._init_database: CREATE TABLE IF NOT EXISTS creates the table in
\* a missing file and keeps an existing one; on a file that is not a database
\* the statement raises sqlite3.DatabaseError, which nothing catches
init_database_raises(file) == file.kind = "corrupt"

init_database_file(file) ==
    IF file.kind = "absent" THEN DbFile({}) ELSE file

\* the most recent upsert per workshop id, as a lookup result
Recent(store, id) ==
    IF id \in DOMAIN recent[store] THEN <<recent[store][id]>> ELSE <<>>

Remember(store, id, package_id) ==
    [recent EXCEPT ![store] = cache_package_id(@, id, package_id)]

\* SteamCollectionToRimPy.__init__: self.mod_cache = self.load_cache()
OpenCache ==
    /\ cache_opened = "no"
    /\ mod_cache' = load_cache(cache_file)
    /\ cache_file' = load_cache_file(cache_file)
    /\ cache_opened' = IF load_cache_type(cache_file) = "dict" THEN "yes" ELSE "other"
    /\ recent' = IF cache_file.kind = "json" THEN recent
                 ELSE [recent EXCEPT !.cache = EmptyDict]
    /\ UNCHANGED << db_file, db_opened, clock, outside_store >>

\* cache_package_id(mod_id, package_id): the dict entry is set and the whole
\* dict is written over the file
UpsertCache ==
    /\ cache_opened = "yes"
    /\ \E mod_id \in WorkshopIds, package_id \in StorePackageIds :
          /\ mod_cache' = cache_package_id(mod_cache, mod_id, package_id)
          /\ cache_file' = save_cache(cache_package_id(mod_cache, mod_id, package_id))
          /\ recent' = Remember("cache", mod_id, package_id)
    /\ UNCHANGED << cache_opened, db_file, db_opened, clock, outside_store >>

\* the process is killed inside save_cache: open(cache_file, 'w') has
\* truncated the file and json.dump has written nothing or only a part
KillDuringSave ==
    /\ cache_opened = "yes"
    /\ \E kind \in {"empty", "corrupt"} : cache_file' = CacheFile(kind)
    /\ mod_cache' = EmptyDict
    /\ cache_opened' = "no"
    /\ db_opened' = "no"
    /\ UNCHANGED << db_file, clock, recent, outside_store >>

\* ModDatabase.__init__: _init_database
OpenDatabase ==
    /\ db_opened \in {"no", "raised"}
    /\ db_opened' = IF init_database_raises(db_file) THEN "raised" ELSE "yes"
    /\ db_file' = init_database_file(db_file)
    /\ recent' = IF db_file.kind = "db" THEN recent
                 ELSE [recent EXCEPT !.db = EmptyDict]
    /\ UNCHANGED << cache_file, mod_cache, cache_opened, clock, outside_store >>

\* ModDatabase.add_mod: one committed transaction
AddMod ==
    /\ db_opened = "yes"
    /\ clock < MaxClock
    /\ \E workshop_id \in WorkshopIds, package_id \in StorePackageIds,
          collection_url \in CollectionUrls :
          /\ db_file' = DbFile(add_mod(db_file.rows, workshop_id, package_id,
                                       clock, collection_url))
          /\ recent' = Remember("db", workshop_id, package_id)
    /\ clock' = clock + 1
    /\ UNCHANGED << cache_file, mod_cache, cache_opened, db_opened, outside_store >>

\* the process is killed inside add_mod: SQLite applies the transaction as a
\* whole or not at all
KillDuringAdd ==
    /\ db_opened = "yes"
    /\ clock < MaxClock
    /\ \E workshop_id \in WorkshopIds, package_id \in StorePackageIds,
          collection_url \in CollectionUrls, committed \in BOOLEAN :
          /\ db_file' = IF committed
                        THEN DbFile(add_mod(db_file.rows, workshop_id, package_id,
                                            clock, collection_url))
                        ELSE db_file
          /\ recent' = IF committed THEN Remember("db", workshop_id, package_id)
                       ELSE recent
    /\ clock' = clock + 1
    /\ db_opened' = "no"
    /\ cache_opened' = "no"
    /\ mod_cache' = EmptyDict
    /\ UNCHANGED << cache_file, outside_store >>

\* the application exits: the objects in memory are gone, the files stay
CloseStores ==
    /\ cache_opened # "no" \/ db_opened # "no"
    /\ cache_opened' = "no"
    /\ db_opened' = "no"
    /\ mod_cache' = EmptyDict
    /\ UNCHANGED << cache_file, db_file, clock, recent, outside_store >>

\* the files the application finds when it is first started
StoreInit ==
    /\ RunIdle
    /\ GuiIdle
    /\ WriterIdle
    /\ HandlerIdle
    /\ ReaderIdle
    /\ workshop = {}
    /\ mod_cache = EmptyDict
    /\ cache_file \in { CacheFile(kind) : kind \in {"absent", "empty", "corrupt", "nondict"} }
    /\ cache_opened = "no"
    /\ db_file \in { [kind |-> kind, rows |-> {}] : kind \in {"absent", "corrupt"} }
    /\ db_opened = "no"
    /\ clock = 0
    /\ recent = [cache |-> EmptyDict, db |-> EmptyDict]

StoreNext ==
    \/ OpenCache
    \/ UpsertCache
    \/ KillDuringSave
    \/ OpenDatabase
    \/ AddMod
    \/ KillDuringAdd
    \/ CloseStores

SpecStore == StoreInit /\ [][StoreNext]_vars

\* ------------------------------------------------------------------------
\* The mod-list writers and the reader of package ids on their own
\* ------------------------------------------------------------------------
\* the lists a caller can hand to a writer: package ids as the manifest
\* reader gives them
ListInputs == SeqUpTo(StorePackageIds, MaxList)

\* a writer is called and runs to its end: create_rimpy_xml ends in
\* tree.write(output_file), the generators of XmlProcessor are followed by
\* save_xml. When the file cannot be opened for writing the call fails
\* (exception, or (False, message)) and the destination is as before.
WriteList ==
    /\ list_result = "none"
    /\ \E w \in ListWriters, opened \in BOOLEAN :
          /\ list_writer' = w
          /\ list_file' = IF opened THEN WrittenDocument(w, list_input) ELSE list_file
          /\ list_result' = IF opened THEN "ok" ELSE "failed"
    /\ UNCHANGED << list_input, list_read, outside_writer >>

\* the write stops after the file was opened for writing (an I/O error such
\* as a full disk, or the process is killed): open(..., 'w') has truncated the
\* destination and only a part of the document was written
InterruptedWrite ==
    /\ list_result = "none"
    /\ \E w \in ListWriters : list_writer' = w
    /\ list_file' = PartialList
    /\ list_result' = "failed"
    /\ UNCHANGED << list_input, list_read, outside_writer >>

\* XmlProcessor.parse_existing_rimpy_xml(file_path) on the destination
ReadBack ==
    /\ list_result # "none"
    /\ list_read = <<>>
    /\ list_read' = <<parse_existing_rimpy_xml(list_file)>>
    /\ UNCHANGED << list_input, list_writer, list_file, list_result, outside_writer >>

\* the caller comes with the next list, for the same destination
NextList ==
    /\ list_read # <<>>
    /\ list_input' \in ListInputs
    /\ list_writer' = "none"
    /\ list_result' = "none"
    /\ list_read' = <<>>
    /\ UNCHANGED << list_file, outside_writer >>

WriterInit ==
    /\ RunIdle
    /\ GuiIdle
    /\ StoreIdle
    /\ HandlerIdle
    /\ ReaderIdle
    /\ cache_file = CacheFile("absent")
    /\ mod_cache = EmptyDict
    /\ workshop = {}
    /\ list_input \in ListInputs
    /\ list_writer = "none"
    /\ list_file = AbsentList
    /\ list_result = "none"
    /\ list_read = <<>>

WriterNext ==
    \/ WriteList
    \/ InterruptedWrite
    \/ ReadBack
    \/ NextList

SpecWriter == WriterInit /\ [][WriterNext]_vars

\* ------------------------------------------------------------------------
\* SteamHandler.download_mod and its steamcmd child
\* ------------------------------------------------------------------------
Seen(kind, code, text) == [kind |-> kind, code |-> code, text |-> text]

\* download_mod(workshop_id) up to the poll loop: the stop flag is read first;
\* then subprocess.Popen starts the child or raises
CallDownload ==
    /\ dl_pc \in {"idle", "returned"}
    /\ dl_calls < MaxCalls
    /\ dl_calls' = dl_calls + 1
    /\ \E id \in WorkshopIds : dl_id' = id
    /\ child_code' = -1
    /\ IF has_stop_flag /\ stop_value
       THEN /\ dl_result' = DownloadResult(dl_id', "SKIPPED", <<>>, StoppedError)
            /\ dl_seen' = Seen("stop_before", -1, "")
            /\ dl_pc' = "returned"
            /\ child' = "none"
            /\ UNCHANGED current_process
       ELSE \/ /\ current_process' = "Popen"
               /\ child' = "running"
               /\ dl_result' = NoResult
               /\ dl_seen' = NothingSeen
               /\ dl_pc' = "poll"
            \/ \E e \in LaunchExceptions :
               /\ current_process' = "None"
               /\ child' = "none"
               /\ dl_result' = DownloadResult(dl_id', "FAILED", <<>>, ExceptionError(e))
               /\ dl_seen' = Seen("exception", -1, e)
               /\ dl_pc' = "returned"
    /\ UNCHANGED << has_stop_flag, stop_value, disk, outside_handler >>

\* the child exits on its own, leaving what it has written
ChildExits ==
    /\ dl_pc = "poll"
    /\ child = "running"
    /\ child' = "exited"
    /\ child_code' \in ExitCodes
    /\ disk' \in SteamcmdWrites(disk, dl_id)
    /\ UNCHANGED << dl_pc, dl_calls, dl_id, has_stop_flag, stop_value, current_process,
                    dl_seen, dl_result, outside_handler >>

\* a turn of the poll loop that reads the stop flag as true: terminate() is
\* sent and wait(timeout=3) begins
PollStop ==
    /\ dl_pc = "poll"
    /\ has_stop_flag /\ stop_value
    /\ dl_pc' = "grace"
    /\ UNCHANGED << dl_calls, dl_id, has_stop_flag, stop_value, current_process, child,
                    child_code, disk, dl_seen, dl_result, outside_handler >>

\* variant: after TimeoutExpired the child is left as it is
GraceEnds_without_kill ==
    /\ dl_pc = "grace"
    /\ IF child = "running"
       THEN \E in_time \in BOOLEAN :
               /\ child' = IF in_time THEN "exited" ELSE "running"
               /\ child_code' = IF in_time THEN -15 ELSE -1
       ELSE UNCHANGED << child, child_code >>
    /\ dl_result' = DownloadResult(dl_id, "SKIPPED", <<>>, StoppedError)
    /\ dl_seen' = Seen("stop_during", -1, "")
    /\ dl_pc' = "returned"
    /\ UNCHANGED << dl_calls, dl_id, has_stop_flag, stop_value, current_process, disk,
                    outside_handler >>

\* wait(timeout=3) returns because the child has exited, or raises
\* TimeoutExpired and kill() follows; download_mod returns SKIPPED and leaves
\* _current_process as it is
GraceEnds ==
    /\ dl_pc = "grace"
    /\ IF child = "running"
       THEN \E in_time \in BOOLEAN :
               /\ child' = IF in_time THEN "exited" ELSE "killed"
               /\ child_code' = IF in_time THEN -15 ELSE -9
       ELSE UNCHANGED << child, child_code >>
    /\ dl_result' = DownloadResult(dl_id, "SKIPPED", <<>>, StoppedError)
    /\ dl_seen' = Seen("stop_during", -1, "")
    /\ dl_pc' = "returned"
    /\ UNCHANGED << dl_calls, dl_id, has_stop_flag, stop_value, current_process, disk,
                    outside_handler >>

\* variant: the loop gives up on a child that is still running (a download
\* timeout), kills it and returns TIMEOUT
PollExit_or_timeout ==
    /\ dl_pc = "poll"
    /\ ~(has_stop_flag /\ stop_value)
    /\ current_process' = "None"
    /\ IF child = "exited"
       THEN /\ dl_result' = download_mod_on_exit(disk, dl_id, child_code)
            /\ dl_seen' = Seen("exit", child_code, "")
            /\ UNCHANGED << child, child_code >>
       ELSE /\ dl_result' = DownloadResult(dl_id, "TIMEOUT", <<>>, NoError)
            /\ dl_seen' = Seen("timeout", -1, "")
            /\ child' = "killed"
            /\ child_code' = -9
    /\ dl_pc' = "returned"
    /\ UNCHANGED << dl_calls, dl_id, has_stop_flag, stop_value, disk, outside_handler >>

\* a turn of the poll loop where the stop flag is not true and poll() gives
\* the exit code: _current_process = None and the result follows from the
\* exit code and the directories on disk
PollExit ==
    /\ dl_pc = "poll"
    /\ ~(has_stop_flag /\ stop_value)
    /\ child = "exited"
    /\ current_process' = "None"
    /\ dl_result' = download_mod_on_exit(disk, dl_id, child_code)
    /\ dl_seen' = Seen("exit", child_code, "")
    /\ dl_pc' = "returned"
    /\ UNCHANGED << dl_calls, dl_id, has_stop_flag, stop_value, child, child_code, disk,
                    outside_handler >>

\* the caller's stop flag turns true
RaiseStopFlag ==
    /\ has_stop_flag
    /\ ~stop_value
    /\ stop_value' = TRUE
    /\ UNCHANGED << dl_pc, dl_calls, dl_id, has_stop_flag, current_process, child,
                    child_code, disk, dl_seen, dl_result, outside_handler >>

\* a SteamHandler with or without a stop flag, over a download_dir that is
\* empty or already holds an item
DownloadInit ==
    /\ RunIdle
    /\ GuiIdle
    /\ StoreIdle
    /\ WriterIdle
    /\ ReaderIdle
    /\ cache_file = CacheFile("absent")
    /\ mod_cache = EmptyDict
    /\ workshop = {}
    /\ dl_pc = "idle"
    /\ dl_calls = 0
    /\ dl_id = <<>>
    /\ has_stop_flag \in BOOLEAN
    /\ stop_value = FALSE
    /\ current_process = "None"
    /\ child = "none"
    /\ child_code = -1
    /\ disk \in { {}, {<< <<"1">>, "content", "files" >>} }
    /\ dl_seen = NothingSeen
    /\ dl_result = NoResult

DownloadNext ==
    \/ CallDownload
    \/ ChildExits
    \/ PollStop
    \/ GraceEnds
    \/ PollExit
    \/ RaiseStopFlag

SpecDownload == DownloadInit /\ [][DownloadNext]_vars

\* Scheduling: the thread inside download_mod keeps running (time.sleep(0.1)
\* returns, wait(timeout=3) returns or raises); nothing makes the child exit
\* or the caller raise the flag
DownloadStep ==
    \/ PollStop
    \/ GraceEnds
    \/ PollExit

SpecDownloadFair == DownloadInit /\ [][DownloadNext]_vars /\ WF_vars(DownloadStep)

\* ------------------------------------------------------------------------
\* The manifest readers on their own
\* ------------------------------------------------------------------------
\* the mod directory of the reads
ReaderModId == <<"1">>

\* both readers are called on the mod directory
ReadManifest ==
    /\ ~rd_result.done
    /\ rd_result' = [xml_processor |-> XmlProcessor_extract_package_id(rd_doc),
                     main |-> main_extract_package_id(ReaderModId, rd_doc),
                     done |-> TRUE]
    /\ UNCHANGED << rd_doc, outside_reader >>

\* the caller comes with the directory of another mod
NextManifest ==
    /\ rd_result.done
    /\ rd_doc' \in AboutDocuments
    /\ rd_result' = NotRead
    /\ UNCHANGED outside_reader

ReaderInit ==
    /\ RunIdle
    /\ GuiIdle
    /\ StoreIdle
    /\ WriterIdle
    /\ HandlerIdle
    /\ cache_file = CacheFile("absent")
    /\ mod_cache = EmptyDict
    /\ workshop = {}
    /\ rd_doc \in AboutDocuments
    /\ rd_result = NotRead

ReaderNext ==
    \/ ReadManifest
    \/ NextManifest

SpecReader == ReaderInit /\ [][ReaderNext]_vars

\* ------------------------------------------------------------------------
\* Properties
\* ------------------------------------------------------------------------
Count(f, v) == Cardinality({ k \in DOMAIN f : f[k] = v })

\* C1: a run without cancellation writes exactly one entry per fetched mod id
\* after the base-game entry, the i-th entry being the one resolved for the
\* i-th mod id, whatever the per-mod outcomes were.
C1_EveryModWrittenInOrder ==
    /\ \A k \in 1..Len(mods) : mods[k].id = mod_ids[k]
    /\ write_status = "ok" =>
          /\ Len(output_file.activeMods) = Len(mod_ids) + 1
          /\ \A k \in 1..Len(mod_ids) : output_file.activeMods[k + 1] = mods[k].packageId

C1_Witness ==
    /\ write_status = "ok"
    /\ Len(mod_ids) = 3
    /\ mod_ids[1] # mod_ids[3]
    /\ {"cached", "package", "fallback"} \subseteq Range(log)

\* C2: when the loop reaches a mod whose workshop id has an entry in the cache,
\* steamcmd is not launched for it and the entry appended is the cached
\* package id.
C2_CacheEntryShortCircuitsDownload ==
    [][ (phase = "loop" /\ CurrentIndex <= Len(mod_ids) /\ CurrentMod \in DOMAIN mod_cache)
        => /\ launches' = launches
           /\ mods' # mods => mods' = Append(mods, ModInfo(CurrentMod, mod_cache[CurrentMod]))
      ]_vars

\* C3: a run cancelled when k mods were resolved writes exactly those k
\* entries, and the cache was upserted only for ids among the first k.
C3_CancelledRunWritesOnlyResolved ==
    (stop_at >= 0 /\ write_status = "ok") =>
        /\ Len(output_file.activeMods) = stop_at + 1
        /\ \A u \in 1..Len(cache_upserts) :
              \E k \in 1..stop_at : mod_ids[k] = cache_upserts[u]

\* C4: no step touches the item directories that were on disk before, and
\* a run that ends in success leaves no item directory of its downloads, in
\* whatever layout they landed.
C4_TemporaryArtifactsRemoved ==
    [][ /\ workshop' = workshop
        /\ outcome' = "success" => (artifacts' = {} /\ ~temp_exists')
      ]_vars

C4_Witness ==
    /\ outcome = "success"
    /\ { d[2] : d \in landed } = Layouts
    /\ "cached" \in Range(log)
    /\ workshop # {}

C6_FetchFailureIsFatal ==
    [][ ( \/ phase = "url" /\ phase' # "api"
          \/ phase = "scrape" /\ (phase' = "done" \/ mod_ids' = <<>>) )
        => /\ phase' = "done"
           /\ outcome' = "failure"
           /\ UNCHANGED << output_file, launches, cache_file, mod_cache >>
      ]_vars

\* C7: a download that failed (non-zero exit code, steamcmd could not be
\* started, or exit code 0 with no item directory in any layout) increments
\* failed, appends the entry steam.<id>, and leaves the cache as it was.
C7_FailedDownloadHandled ==
    [][ ( /\ phase = "resolve"
          /\ phase' = "loop"
          /\ \/ download \in {"exit_nonzero", "exception"}
             \/ /\ download = "exit_zero"
                /\ \A layout \in Layouts : <<CurrentMod, layout>> \notin artifacts )
        => /\ stats'.failed = stats.failed + 1
           /\ mods' = Append(mods, ModInfo(CurrentMod, SteamPrefix \o CurrentMod))
           /\ UNCHANGED << mod_cache, cache_file >>
      ]_vars

\* C8: no cache record, in memory or on disk, maps a workshop id to its
\* fallback identifier steam.<id> (no manifest text of the model normalises
\* to a fallback identifier, so such a record can only come from a fallback).
C8_NoFallbackInCache ==
    /\ \A x \in DOMAIN mod_cache : mod_cache[x] # SteamPrefix \o x
    /\ \A x \in DOMAIN cache_file.data : cache_file.data[x] # SteamPrefix \o x

\* C9: when the item of a mod was downloaded (exit code 0, item directory in
\* place) and its manifest is missing, unparsable or has no packageId text,
\* the entry appended is steam.<id> and failed is not incremented.
C9_FallbackDeterministic ==
    [][ ( /\ phase = "resolve"
          /\ phase' = "loop"
          /\ download = "exit_zero"
          /\ <<CurrentMod, "content">> \in artifacts
          /\ about.kind \in {"missing", "unparsable", "nofield"} )
        => /\ mods' = Append(mods, ModInfo(CurrentMod, SteamPrefix \o CurrentMod))
           /\ stats'.failed = stats.failed
      ]_vars

C9_Witness ==
    /\ stats.failed = 0
    /\ \E k \in 1..Len(mods) :
          /\ log[k] = "package"
          /\ <<mods[k].id, "content">> \in landed
          /\ mods[k].packageId = SteamPrefix \o mods[k].id

\* C10: at every point of a run total = fresh + cached + failed + unattempted,
\* each counter being the number of mods the loop decided that way; the
\* counters are zero when the run starts and never decrease during the run.
C10_Consistent ==
    /\ stats.successful - stats.cached = Count(log, "package")
    /\ stats.cached = Count(log, "cached")
    /\ stats.failed = Count(log, "fallback")
    /\ Len(mods) <= Len(mod_ids)
    /\ stats.total_mods = (stats.successful - stats.cached) + stats.cached
                          + stats.failed + (Len(mod_ids) - Len(mods))
    /\ phase = "url" => stats = ConversionStats

C10_Monotone ==
    phase # "idle" =>
        \A f \in {"total_mods", "successful", "failed", "cached", "current"} :
            stats'[f] >= stats[f]

C10_CountersConsistent == [](C10_Consistent) /\ [][C10_Monotone]_vars

C10_Witness ==
    /\ phase = "loop"
    /\ Len(mods) < Len(mod_ids)
    /\ stats.cached >= 1
    /\ stats.successful > stats.cached

\* C11: in both stores, every workshop id has at most one record and its
\* lookup gives the package id of the most recent upsert; upserting the same
\* (id, package id) a second time changes neither the number of records nor
\* any lookup
C11_DbIdempotent ==
    \A id \in WorkshopIds, package_id \in StorePackageIds, url \in CollectionUrls :
        LET once == add_mod(db_file.rows, id, package_id, clock, url)
            twice == add_mod(once, id, package_id, clock + 1, url)
        IN /\ Cardinality(twice) = Cardinality(once)
           /\ \A x \in WorkshopIds : get_package_id(twice, x) = get_package_id(once, x)

C11_CacheIdempotent ==
    \A id \in WorkshopIds, package_id \in StorePackageIds :
        LET once == cache_package_id(mod_cache, id, package_id)
            twice == cache_package_id(once, id, package_id)
        IN /\ Cardinality(DOMAIN twice) = Cardinality(DOMAIN once)
           /\ \A x \in WorkshopIds :
                 get_package_id_cached(twice, x) = get_package_id_cached(once, x)

C11_UpsertLastWins ==
    /\ db_file.kind = "db" =>
          /\ \A id \in WorkshopIds :
                /\ Cardinality(RowsOf(db_file.rows, id)) <= 1
                /\ get_package_id(db_file.rows, id) = Recent("db", id)
          /\ C11_DbIdempotent
    /\ cache_opened = "yes" =>
          /\ \A id \in WorkshopIds :
                get_package_id_cached(mod_cache, id) = Recent("cache", id)
          /\ C11_CacheIdempotent

\* an id was upserted twice in the database and once more in the JSON cache
C11_Witness ==
    /\ db_file.kind = "db"
    /\ clock = 2
    /\ Cardinality(db_file.rows) = 1
    /\ \E r \in db_file.rows : r.processed_date = 1
    /\ cache_opened = "yes"
    /\ DOMAIN mod_cache = WorkshopIds

\* C12: no step, an interrupted cache write included, removes a record from
\* what the next start reads from the store
C12_InterruptedWriteKeepsStore ==
    [][ /\ \A id \in DOMAIN load_cache(cache_file) :
              id \in DOMAIN load_cache(cache_file')
        /\ db_file.kind = "db" =>
              /\ db_file'.kind = "db"
              /\ \A r \in db_file.rows : RowsOf(db_file'.rows, r.workshop_id) # {}
      ]_vars

\* C13: opening a corrupt store gives a usable, empty store and replaces the
\* corrupt content by a fresh store
C13_CorruptStoreIsReset ==
    [][ /\ (cache_opened = "no" /\ cache_file.kind = "corrupt" /\ cache_opened' # "no") =>
              /\ cache_opened' = "yes"
              /\ mod_cache' = EmptyDict
              /\ cache_file' = JsonFile(EmptyDict)
        /\ (db_opened = "no" /\ db_file.kind = "corrupt" /\ db_opened' # "no") =>
              /\ db_opened' = "yes"
              /\ db_file' = DbFile({})
      ]_vars

\* C14: there is never more than one worker; a worker starts only when none is
\* active and the previous run has shown its outcome; a click during a run
\* starts nothing and leaves nothing queued
C14_AtMostOneActiveRun ==
    /\ [](workers <= 1 /\ (workers = 1 => convert_btn = "disabled"))
    /\ [][ workers' > workers =>
              /\ workers = 0
              /\ after_queue = <<>>
              /\ runs > 0 => Len(reported) = 1 ]_vars
    /\ [][ (rejected' /\ ~rejected) =>
              UNCHANGED << workers, after_queue, runs, phase, convert_btn >> ]_vars

\* a click was dropped during the second run, which started after the first
\* had reported
C14_Witness ==
    /\ runs = 2
    /\ workers = 1
    /\ rejected

\* C15: a run shows at most one outcome, the one the worker ended with; once
\* the run is over it has shown exactly one; and every started run gets there
C15_ExactlyOneOutcome ==
    /\ [](Len(reported) <= 1)
    /\ [](reported # <<>> => reported = <<outcome>>)
    /\ []((runs > 0 /\ workers = 0 /\ after_queue = <<>>) => Len(reported) = 1)
    /\ \A n \in 1..MaxRuns :
          (runs = n /\ workers = 1) ~> (runs = n /\ Len(reported) = 1)

\* a run that failed and a run that succeeded have both shown their outcome
C15_Witness ==
    /\ runs = 2
    /\ reported = <<"failure">>
    /\ output_file.kind = "xml"

\* C16: the list a fetch returned holds no workshop id twice and does not
\* hold the id of the collection
C16_FetchDeduplicated ==
    /\ \A i, j \in DOMAIN mod_ids : i # j => mod_ids[i] # mod_ids[j]
    /\ CollectionId \notin Range(mod_ids)

\* the package ids of a list without the base game and the expansions
RECURSIVE WithoutOfficial(_)
WithoutOfficial(ids) ==
    IF ids = <<>> THEN <<>>
    ELSE IF Head(ids) \in {CoreId} \cup Range(KnownExpansions)
         THEN WithoutOfficial(Tail(ids))
         ELSE <<Head(ids)>> \o WithoutOfficial(Tail(ids))

\* C17: a written mod list has the base game id as first active entry, then
\* the package ids in the order given, and the four expansion ids as its
\* trailing list, whatever the input
C17_BaseFirstThenModsThenExpansions ==
    (list_result = "ok" /\ list_writer \in {"create_rimpy_xml", "generate_mods_config_data_xml"}) =>
        /\ list_file.lists["activeMods"] = <<CoreId>> \o list_input
        /\ list_file.lists["knownExpansions"] = KnownExpansions

\* C18: reading back a list that was written gives the package ids that were
\* handed to the writer, in their order
C18_RoundTrip ==
    (list_result = "ok" /\ list_read # <<>>) =>
        WithoutOfficial(list_read[1]) = list_input

\* C19: a write attempt leaves the destination as it was or holding a complete
\* document
C19_WriteAllOrNothing ==
    [][ list_file' = list_file \/ list_file'.kind = "xml" ]_vars

\* a non-empty directory of the item exists in one of the layouts
ArtifactOnDisk == \E k \in DOMAIN AltLayouts : HasFiles(disk, dl_id, AltLayouts[k])

\* C20: download_mod returns SUCCESS exactly when it saw exit code 0 and a
\* non-empty item directory exists in one of the layouts (the path returned
\* is such a directory); a non-zero exit code gives FAILED with that code in
\* the error, a launch exception FAILED with its text, and exit code 0
\* without any item directory FAILED
C20_DownloadStatus ==
    dl_pc = "returned" =>
        /\ dl_result.status = "SUCCESS" <=>
              (dl_seen.kind = "exit" /\ dl_seen.code = 0 /\ ArtifactOnDisk)
        /\ dl_result.status = "SUCCESS" =>
              /\ Len(dl_result.mod_path) = 1
              /\ HasFiles(disk, dl_result.mod_path[1][1], dl_result.mod_path[1][2])
              /\ dl_result.mod_path[1][1] = dl_id
        /\ (dl_seen.kind = "exit" /\ dl_seen.code # 0) =>
              /\ dl_result.status = "FAILED"
              /\ dl_result.error_message = ExitError(dl_seen.code)
        /\ dl_seen.kind = "exception" =>
              /\ dl_result.status = "FAILED"
              /\ dl_result.error_message = ExceptionError(dl_seen.text)
        /\ (dl_seen.kind = "exit" /\ dl_seen.code = 0 /\ ~ArtifactOnDisk) =>
              dl_result.status = "FAILED"

\* a second call found the item in an alternate layout only
C20_Witness ==
    /\ dl_pc = "returned"
    /\ dl_calls = 2
    /\ dl_result.status = "SUCCESS"
    /\ ~HasFiles(disk, dl_id, "content")
    /\ <<dl_id, "content", "empty">> \in disk

\* C21 (as stated): a returned DownloadResult carries a path exactly when its
\* status is SUCCESS and an error message exactly when its status is FAILED.
C21_PathIffSuccessErrorIffFailed ==
    dl_pc = "returned" =>
        /\ dl_result.mod_path # <<>> <=> dl_result.status = "SUCCESS"
        /\ dl_result.error_message # NoError <=> dl_result.status = "FAILED"

\* C21 (amended): a returned DownloadResult carries a path exactly when its
\* status is SUCCESS, and a message in error_message exactly when its status
\* is FAILED or SKIPPED (for SKIPPED the message says the download was stopped).
C21_PathIffSuccessMessageIffNotSuccess ==
    dl_pc = "returned" =>
        /\ dl_result.status \in {"SUCCESS", "FAILED", "SKIPPED"}
        /\ dl_result.workshop_id = dl_id
        /\ dl_result.mod_path # <<>> <=> dl_result.status = "SUCCESS"
        /\ dl_result.error_message # NoError <=> dl_result.status \in {"FAILED", "SKIPPED"}
        /\ dl_result.status = "SKIPPED" => dl_result.error_message = StoppedError

\* a call that started the child returned SKIPPED after a call that failed
C21_Witness ==
    /\ dl_pc = "returned"
    /\ dl_calls = 2
    /\ dl_result.status = "SKIPPED"
    /\ dl_seen.kind = "stop_during"
    /\ \E layout \in Range(AltLayouts) : <<dl_id, layout, "files">> \in disk

\* C22: a download_mod call made while the stop flag reads true returns
\* SKIPPED with a message and starts no child; a call whose poll loop reads the
\* flag as true returns SKIPPED with a message after terminate() and, when the
\* child has not exited within the grace timeout, kill(); whenever no call is
\* in progress no child is running.
C22_CancelledDownloadSkipped ==
    /\ [][ (dl_calls' # dl_calls /\ has_stop_flag /\ stop_value) =>
              /\ dl_pc' = "returned"
              /\ dl_result'.status = "SKIPPED"
              /\ dl_result'.error_message # NoError
              /\ child' = "none" ]_vars
    /\ [][ (dl_pc \in {"poll", "grace"} /\ has_stop_flag /\ stop_value /\ dl_pc' # dl_pc) =>
              /\ dl_pc' \in {"grace", "returned"}
              /\ dl_pc' = "returned" =>
                    /\ dl_result'.status = "SKIPPED"
                    /\ dl_result'.error_message # NoError
                    /\ child' \in {"exited", "killed"}
                    /\ child = "running" => child_code' \in {-15, -9} ]_vars
    /\ [](dl_pc \in {"idle", "returned"} => child # "running")

\* the child did not exit within the grace timeout of a cancelled second call
C22_Witness ==
    /\ dl_pc = "returned"
    /\ dl_calls = 2
    /\ dl_result.status = "SKIPPED"
    /\ child = "killed"
    /\ child_code = -9

\* C23: within a run steamcmd is launched at most once for each workshop id.
C23_LaunchedAtMostOncePerId ==
    \A i, j \in DOMAIN launches : i # j => launches[i] # launches[j]

C25_EmptyStructuredResultFallsBack ==
    [][ (phase = "api" /\ phase' # "api") =>
           \/ phase' = "scrape"
           \/ phase' = "loop" /\ mod_ids' # <<>> ]_vars

\* the children of the root whose tag is packageId in any letter case
PackageIdFields(doc) ==
    { k \in DOMAIN doc.fields : Lower(doc.fields[k].tag) = Lower(PackageIdTag) }

\* C26: both manifest readers return absent for a manifest that is missing,
\* does not parse or has no packageId child in any letter case, and for a
\* manifest with one packageId child (in any letter case) that has text they
\* return that text trimmed and lowercased.
C26_ReaderNormalisesOrAbsent ==
    rd_result.done =>
        \A r \in {"xml_processor", "main"} :
            /\ rd_doc.kind # "xml" => rd_result[r] = Absent
            /\ (rd_doc.kind = "xml" /\ PackageIdFields(rd_doc) = {}) => rd_result[r] = Absent
            /\ \A k \in PackageIdFields(rd_doc) :
                  (PackageIdFields(rd_doc) = {k} /\ rd_doc.fields[k].text # <<>>) =>
                      rd_result[r] = Found(Lower(Strip(rd_doc.fields[k].text)))

\* C27: every entry of the mod list the pipeline builds and writes, and every
\* package id in the cache (in memory and on disk), is a non-empty text.
C27_NoEmptyPackageId ==
    /\ \A k \in DOMAIN mods : mods[k].packageId # <<>>
    /\ \A k \in DOMAIN output_file.activeMods : output_file.activeMods[k] # <<>>
    /\ \A x \in DOMAIN mod_cache : mod_cache[x] # <<>>
    /\ \A x \in DOMAIN cache_file.data : cache_file.data[x] # <<>>

\* the records of a cache that hold a non-empty package id
FoundRecords(cache) == { x \in DOMAIN cache : cache[x] # <<>> }

\* C28: no step of a run changes or removes a record with a non-empty package
\* id, in memory or in mod_cache.json, so such a record is at the end of the
\* run what it was at its start; the cache is upserted only for an id whose
\* lookup found no non-empty package id, and by nothing but such an upsert.
C28_FoundRecordsKept ==
    [][ /\ \A x \in FoundRecords(mod_cache) :
              x \in DOMAIN mod_cache' /\ mod_cache'[x] = mod_cache[x]
        /\ \A x \in FoundRecords(load_cache(cache_file)) :
              /\ x \in DOMAIN load_cache(cache_file')
              /\ load_cache(cache_file')[x] = load_cache(cache_file)[x]
        /\ Len(cache_upserts') > Len(cache_upserts) =>
              /\ cache_upserts'[Len(cache_upserts')] \notin FoundRecords(mod_cache)
              /\ DOMAIN mod_cache' = DOMAIN mod_cache \cup {cache_upserts'[Len(cache_upserts')]}
        /\ (phase \notin {"idle", "resolve"}) => mod_cache' = mod_cache
      ]_vars

\* the second run found the record of one mod and added a record for another
C28_Witness ==
    /\ runs = 2
    /\ phase = "done"
    /\ outcome = "success"
    /\ log = <<"cached", "package">>
    /\ Cardinality(FoundRecords(mod_cache)) = 2
    /\ cache_file = JsonFile(mod_cache)

\* the stop flag reads true
StopRead == has_stop_flag /\ stop_value

\* C29: download_mod returns once the child has exited, and once the stop flag
\* reads true it returns after at most two steps of the loop (terminate and
\* grace wait, then kill) whether or not the child exits; the loop is left in
\* no other way, so without a true stop flag it stays in the loop as long as
\* the child runs.
C29_PollLoopExits ==
    /\ (dl_pc = "poll" /\ child = "exited") ~> (dl_pc = "returned")
    /\ (dl_pc \in {"poll", "grace"} /\ StopRead) ~> (dl_pc = "returned")
    /\ [][ (dl_pc = "poll" /\ StopRead /\ dl_pc' # "poll") => dl_pc' = "grace" ]_vars
    /\ [][ (dl_pc = "grace" /\ dl_pc' # "grace") =>
              (dl_pc' = "returned" /\ child' # "running") ]_vars
    /\ [][ (dl_pc = "poll" /\ dl_pc' # "poll") => (StopRead \/ child = "exited") ]_vars
    /\ [][ (dl_pc = "poll" /\ ~StopRead /\ child = "running") =>
              (dl_pc' = "poll" /\ dl_result' = NoResult) ]_vars

\* a second call was cancelled and its child exited within the grace timeout
C29_Witness ==
    /\ dl_pc = "returned"
    /\ dl_calls = 2
    /\ dl_seen.kind = "stop_during"
    /\ child = "exited"
    /\ child_code = -15

\* C30: whenever no download_mod call is in progress, _current_process is
\* None.
C30_NoHandleBetweenCalls ==
    dl_pc \in {"idle", "returned"} => current_process = "None"

====
